---- MODULE Spec2Model ----
(***************************************************************************)
(* Model of the Crypto.com Developer Platform client SDK: the Client       *)
(* configuration store, the CronosId validator and the facade operations   *)
(* that wrap one HTTP request each.                                        *)
(*                                                                         *)
(* Strings that the code inspects character by character (CronosId names)  *)
(* are sequences of one-character strings.  Error messages and URLs are    *)
(* sequences of text segments in the order the template literal writes     *)
(* them.                                                                   *)
(***************************************************************************)
EXTENDS Integers, Sequences, FiniteSets, TLC

VARIABLES
  apiKey,     \* Client.apiKey   (private static)
  provider,   \* Client.provider (private static)
  chainId,    \* the chain identity kept by the Client
  inited,     \* history: Client.init has been called at least once
  lastInit,   \* history: the config passed to the most recent Client.init
  calls,      \* per caller: the operation it has called, and where it stands
  input,      \* validator run: the string handed to CronosId.isCronosId
  result      \* validator run: what CronosId.isCronosId returned

vars == <<apiKey, provider, chainId, inited, lastInit, calls, input, result>>

clientVars == <<apiKey, provider, chainId>>
histVars == <<inited, lastInit>>
validatorVars == <<input, result>>

-----------------------------------------------------------------------------
(* Bounds *)

MaxNameLen == 3      \* every string over Alphabet up to this length is tried
MaxPieces == 3       \* and every concatenation of up to this many Pieces

-----------------------------------------------------------------------------
(* JavaScript values *)

\* the value of an unset static field or a missing argument; a template
\* literal renders it as the text "undefined"
Undefined == "undefined"

\* `!v` for a string-or-undefined v
Falsy(v) == v = Undefined \/ v = ""

-----------------------------------------------------------------------------
(* Character strings *)

Alphabet == {".", "c", "r", "o", "a", "C", "R", "O", "A"}

Pieces ==
  { <<".", "c", "r", "o">>, <<".", "C", "R", "O">>, <<".", "c", "R", "o">>,
    <<"a">>, <<"A">>, <<".">>, <<".", "c", "r">>, <<"c", "r", "o">> }

RECURSIVE Strings(_)
Strings(n) ==
  IF n = 0 THEN {<<>>}
  ELSE LET shorter == Strings(n - 1)
       IN  shorter \cup {Append(s, c) : s \in {t \in shorter : Len(t) = n - 1}, c \in Alphabet}

RECURSIVE Concats(_)
Concats(n) ==
  IF n = 0 THEN {<<>>}
  ELSE LET fewer == Concats(n - 1)
       IN  fewer \cup {s \o p : s \in fewer, p \in Pieces}

\* the strings the documentation gives as examples
Alice == <<"a", "l", "i", "c", "e">>
AliceCro == <<"a", "l", "i", "c", "e", ".", "c", "r", "o">>
AliceCroUpper == <<"A", "L", "I", "C", "E", ".", "C", "R", "O">>
Examples == {Alice, AliceCro, AliceCroUpper}

Names == Strings(MaxNameLen) \cup Concats(MaxPieces) \cup Examples

\* the text of a character string, as a template literal writes it
RECURSIVE Text(_)
Text(s) == IF s = <<>> THEN "" ELSE Head(s) \o Text(Tail(s))

LowerChar(c) ==
  CASE c = "A" -> "a"
    [] c = "L" -> "l"
    [] c = "I" -> "i"
    [] c = "E" -> "e"
    [] c = "C" -> "c"
    [] c = "R" -> "r"
    [] c = "O" -> "o"
    [] OTHER -> c

\* String.prototype.toLowerCase
toLowerCase(s) == [i \in 1..Len(s) |-> LowerChar(s[i])]

\* String.prototype.endsWith
endsWith(s, suffix) ==
  /\ Len(s) >= Len(suffix)
  /\ SubSeq(s, Len(s) - Len(suffix) + 1, Len(s)) = suffix

\* s has sep at position i (1-based)
OccursAt(s, sep, i) ==
  /\ i + Len(sep) - 1 <= Len(s)
  /\ SubSeq(s, i, i + Len(sep) - 1) = sep

\* String.prototype.split with a non-empty separator: scan left to right,
\* cut at each occurrence, keep empty parts
RECURSIVE SplitFrom(_, _, _, _)
SplitFrom(s, sep, i, cur) ==
  IF i > Len(s) THEN <<cur>>
  ELSE IF OccursAt(s, sep, i)
       THEN <<cur>> \o SplitFrom(s, sep, i + Len(sep), <<>>)
       ELSE SplitFrom(s, sep, i + 1, Append(cur, s[i]))

split(s, sep) == SplitFrom(s, sep, 1, <<>>)

DotCro == <<".", "c", "r", "o">>

-----------------------------------------------------------------------------
(* CronosId validator *)

isCronosId_noLower(name) ==
  LET parts == split(name, DotCro)
  IN  endsWith(name, DotCro) /\ Len(parts[1]) > 0

isCronosId(name) ==
  LET lowercaseName == toLowerCase(name)
      parts == split(lowercaseName, DotCro)
  IN  endsWith(lowercaseName, DotCro) /\ Len(parts[1]) > 0

-----------------------------------------------------------------------------
(* Integration functions: one HTTP request each.                           *)
(*   params    the parameters, in order                                    *)
(*   defaults  the parameters that declare a default value                 *)
(*   path      the url template: text, with parameter names where the      *)
(*             template literal interpolates them                          *)
(*   keyHeader the request sets 'x-api-key': apiKey                        *)
(*   body      the members of the object written as JSON body: a          *)
(*             parameter name, or "...payload" for the spread payload      *)
(*   tag, fail the texts of the catch block: console.error and the         *)
(*             re-thrown Error                                             *)

Base == "${BASE_URL}/api/v1/cdc-developer-platform"

NoDefaults == [p \in {} |-> ""]

Api(tag, fail, method, params, defaults, path, keyHeader, body) ==
  [tag |-> tag, fail |-> fail, method |-> method, params |-> params,
   defaults |-> defaults, path |-> path, keyHeader |-> keyHeader, body |-> body]

createWallet ==
  Api("[walletApi/createWallet] - ", <<"Failed to create wallet: ">>, "POST",
      <<"apiKey">>, NoDefaults, <<Base, "/wallet">>, TRUE, <<>>)

getBalance ==
  Api("[walletApi/getBalance] - ", <<"Failed to fetch wallet balance: ">>, "GET",
      <<"apiKey", "walletAddress">>, NoDefaults,
      <<Base, "/wallet/balance?walletAddress=", "walletAddress">>, TRUE, <<>>)

getContractCode ==
  Api("[contractApi/getContractCode] - ", <<"Failed to fetch contract code: ">>, "GET",
      <<"apiKey", "contractAddress">>, NoDefaults,
      <<Base, "/contract/contract-code?contractAddress=", "contractAddress">>, TRUE, <<>>)

getNativeTokenBalance ==
  Api("[tokenApi/getNativeTokenBalance] - ", <<"Failed to fetch native token balance: ">>, "GET",
      <<"apiKey", "walletAddress">>, NoDefaults,
      <<Base, "/token/native-token-balance?walletAddress=", "walletAddress">>, TRUE, <<>>)

getERC20TokenBalance ==
  Api("[tokenApi/getERC20TokenBalance] - ", <<"Failed to fetch ERC20 token balance: ">>, "GET",
      <<"apiKey", "walletAddress", "contractAddress", "blockHeight">>,
      [blockHeight |-> "latest"],
      <<Base, "/token/erc20-token-balance?walletAddress=", "walletAddress",
        "&contractAddress=", "contractAddress", "&blockHeight=", "blockHeight">>, TRUE, <<>>)

transferToken ==
  Api("[tokenApi/transferToken] - ", <<"Failed to transfer token: ">>, "POST",
      <<"apiKey", "payload", "provider">>, NoDefaults,
      <<Base, "/token/transfer">>, TRUE, <<"...payload", "provider">>)

wrapToken ==
  Api("[tokenApi/wrapToken] - ", <<"Failed to wrap token: ">>, "POST",
      <<"apiKey", "payload", "provider">>, NoDefaults,
      <<Base, "/token/wrap">>, TRUE, <<"...payload", "provider">>)

swapToken ==
  Api("[tokenApi/swapToken] - ", <<"Failed to swap token: ">>, "POST",
      <<"apiKey", "payload", "provider">>, NoDefaults,
      <<Base, "/token/swap">>, TRUE, <<"...payload", "provider">>)

getERC721TokenBalance ==
  Api("[tokenApi/getERC721TokenBalance] - ", <<"Failed to fetch ERC721 token balance: ">>, "GET",
      <<"apiKey", "walletAddress", "contractAddress">>, NoDefaults,
      <<Base, "/token/erc721-token-balance?walletAddress=", "walletAddress",
        "&contractAddress=", "contractAddress">>, TRUE, <<>>)

getTokenOwner ==
  Api("[tokenApi/getTokenOwner] - ", <<"Failed to fetch token owner: ">>, "GET",
      <<"apiKey", "contractAddress", "tokenId">>, NoDefaults,
      <<Base, "/token/erc721-token-owner?contractAddress=", "contractAddress",
        "&tokenId=", "tokenId">>, TRUE, <<>>)

getTokenUri ==
  Api("[tokenApi/getTokenUri] - ", <<"Failed to fetch token URI: ">>, "GET",
      <<"apiKey", "contractAddress", "tokenId">>, NoDefaults,
      <<Base, "/token/erc721-token-uri?contractAddress=", "contractAddress",
        "&tokenId=", "tokenId">>, TRUE, <<>>)

getERC721Metadata ==
  Api("[tokenApi/getERC721Metadata] - ", <<"Failed to fetch ERC721 metadata: ">>, "GET",
      <<"apiKey", "contractAddress">>, NoDefaults,
      <<Base, "/token/erc721-token-metadata?contractAddress=", "contractAddress">>, TRUE, <<>>)

getERC20Metadata ==
  Api("[tokenApi/getERC20Metadata] - ", <<"Failed to fetch ERC20 metadata: ">>, "GET",
      <<"apiKey", "contractAddress">>, NoDefaults,
      <<Base, "/token/erc20-token-metadata?contractAddress=", "contractAddress">>, TRUE, <<>>)

\* the parameters are those of the call in Transaction.getTransactionsByAddress;
\* the url carries the address, the explorer key, the session and the limit
getTransactionsByAddress ==
  Api("[transactionApi/getTransactionsByAddress] - ",
      <<"Failed to fetch transactions by address: ">>, "GET",
      <<"apiKey", "address", "explorerKey", "session", "limit", "startBlock", "endBlock">>,
      [session |-> "", limit |-> "20"],
      <<Base, "/transaction/address?address=", "address", "&explorerKey=", "explorerKey",
        "&session=", "session", "&limit=", "limit">>, TRUE, <<>>)

getTransactionByHash ==
  Api("[transactionApi/getTransactionByHash] - ", <<"Failed to fetch transaction: ">>, "GET",
      <<"apiKey", "txHash">>, NoDefaults,
      <<Base, "/transaction/tx-hash?txHash=", "txHash">>, TRUE, <<>>)

getTransactionStatus ==
  Api("[transactionApi/getTransactionStatus] - ", <<"Failed to fetch transaction status: ">>, "GET",
      <<"apiKey", "txHash">>, NoDefaults,
      <<Base, "/transaction/status?txHash=", "txHash">>, TRUE, <<>>)

getTransactionCount ==
  Api("[transactionApi/getTransactionCount] - ", <<"Failed to fetch transaction count: ">>, "GET",
      <<"apiKey", "walletAddress">>, NoDefaults,
      <<Base, "/transaction/tx-count?walletAddress=", "walletAddress">>, TRUE, <<>>)

getGasPrice ==
  Api("[transactionApi/getGasPrice] - ", <<"Failed to fetch gas price: ">>, "GET",
      <<"apiKey">>, NoDefaults, <<Base, "/transaction/gas-price">>, TRUE, <<>>)

getFeeData ==
  Api("[transactionApi/getFeeData] - ", <<"Failed to fetch fee data: ">>, "GET",
      <<"apiKey">>, NoDefaults, <<Base, "/transaction/fee-data">>, TRUE, <<>>)

estimateGas ==
  Api("[transactionApi/estimateGas] - ", <<"Failed to estimate gas: ">>, "POST",
      <<"apiKey", "payload">>, NoDefaults,
      <<Base, "/transaction/estimate-gas">>, TRUE, <<"...payload">>)

getCurrentBlock ==
  Api("[blockApi/getCurrentBlock] - ", <<"Failed to fetch current block: ">>, "GET",
      <<"apiKey">>, NoDefaults, <<Base, "/block/current-block">>, TRUE, <<>>)

getBlockByTag ==
  Api("[blockApi/getBlockByTag] - ", <<"Failed to fetch block by tag: ">>, "GET",
      <<"apiKey", "blockTag", "txDetail">>, [txDetail |-> "false"],
      <<Base, "/block/block-tag?blockTag=", "blockTag", "&txDetail=", "txDetail">>, TRUE, <<>>)

getNetworkInfo ==
  Api("[network/getNetworkInfo] - ", <<"Failed to get network info: ">>, "GET",
      <<"apiKey">>, NoDefaults, <<Base, "/network/info">>, TRUE, <<>>)

getChainId ==
  Api("[network/getChainId] - ", <<"Failed to get chain id: ">>, "GET",
      <<"apiKey">>, NoDefaults, <<Base, "/network/chain-id">>, TRUE, <<>>)

getClientVersion ==
  Api("[network/getChainId] - ", <<"Failed to get chain id: ">>, "GET",
      <<"apiKey">>, NoDefaults, <<Base, "/network/client-version">>, TRUE, <<>>)

getWhitelistedTokens ==
  Api("[defiApi/getWhitelistedTokens] - ", <<"Failed to fetch whitelisted tokens: ">>, "GET",
      <<"apiKey", "protocol">>, NoDefaults,
      <<Base, "/defi/whitelisted-tokens/", "protocol">>, TRUE, <<>>)

getAllFarms ==
  Api("[defiApi/getAllFarms] - ", <<"Failed to fetch farms: ">>, "GET",
      <<"apiKey", "protocol">>, NoDefaults,
      <<Base, "/defi/farms/", "protocol">>, TRUE, <<>>)

getFarmBySymbol ==
  Api("[defiApi/getFarmBySymbol] - ", <<"Failed to fetch farm: ">>, "GET",
      <<"apiKey", "protocol", "symbol">>, NoDefaults,
      <<Base, "/defi/farms/", "protocol", "/", "symbol">>, TRUE, <<>>)

getAllTickers ==
  Api("[exchangeApi/getAllTickers] - ", <<"Failed to fetch tickers: ">>, "GET",
      <<>>, NoDefaults, <<Base, "/exchange/tickers">>, FALSE, <<>>)

getTickerByInstrument ==
  Api("[exchangeApi/getTickerByInstrument] - ",
      <<"Failed to fetch ticker for ", "instrumentName", ": ">>, "GET",
      <<"instrumentName">>, NoDefaults,
      <<Base, "/exchange/tickers/", "instrumentName">>, FALSE, <<>>)

getLogs ==
  Api("[event/getLogs] - ", <<"Failed to get event log: ">>, "GET",
      <<"apiKey", "address">>, NoDefaults,
      <<Base, "//events?address=", "address">>, TRUE, <<>>)

\* no method is given to fetch, which then sends a GET
resolveName ==
  Api("[cronosidApi/resolveName] - ", <<"Failed to resolve name: ">>, "GET",
      <<"apiKey", "name">>, NoDefaults,
      <<Base, "/cronosid/resolve/", "name">>, TRUE, <<>>)

lookupAddress ==
  Api("[cronosidApi/lookupAddress] - ", <<"Failed to lookup address: ">>, "GET",
      <<"apiKey", "address">>, NoDefaults,
      <<Base, "/cronosid/lookup/", "address">>, TRUE, <<>>)

-----------------------------------------------------------------------------
(* Facade operations.                                                      *)
(*   params, required, defaults   the facade method's parameters           *)
(*   fn        the integration function it calls                           *)
(*   actuals   the argument expressions of that call, in order: a facade   *)
(*             parameter, Client.getApiKey() or Client.getProvider()       *)

KEY == "Client.getApiKey()"
PROVIDER == "Client.getProvider()"

Facade(params, required, defaults, fn, actuals) ==
  [params |-> params, required |-> required, defaults |-> defaults,
   fn |-> fn, actuals |-> actuals]

Wallet_create == Facade(<<>>, 0, NoDefaults, createWallet, <<KEY>>)
Wallet_balance ==
  Facade(<<"walletAddress">>, 1, NoDefaults, getBalance, <<KEY, "walletAddress">>)

Token_getNativeTokenBalance ==
  Facade(<<"address">>, 1, NoDefaults, getNativeTokenBalance, <<KEY, "address">>)
Token_getERC20TokenBalance ==
  Facade(<<"address", "contractAddress", "blockHeight">>, 2, [blockHeight |-> "latest"],
         getERC20TokenBalance, <<KEY, "address", "contractAddress", "blockHeight">>)
Token_transfer == Facade(<<"payload">>, 1, NoDefaults, transferToken, <<KEY, "payload", PROVIDER>>)
Token_wrap == Facade(<<"payload">>, 1, NoDefaults, wrapToken, <<KEY, "payload", PROVIDER>>)
Token_swap == Facade(<<"payload">>, 1, NoDefaults, swapToken, <<KEY, "payload", PROVIDER>>)
Token_getERC721TokenBalance ==
  Facade(<<"walletAddress", "contractAddress">>, 2, NoDefaults,
         getERC721TokenBalance, <<KEY, "walletAddress", "contractAddress">>)
Token_getTokenOwner ==
  Facade(<<"contractAddress", "tokenId">>, 2, NoDefaults,
         getTokenOwner, <<KEY, "contractAddress", "tokenId">>)
Token_getTokenURI ==
  Facade(<<"contractAddress", "tokenId">>, 2, NoDefaults,
         getTokenUri, <<KEY, "contractAddress", "tokenId">>)
Token_getERC721Metadata ==
  Facade(<<"contractAddress">>, 1, NoDefaults, getERC721Metadata, <<KEY, "contractAddress">>)
Token_getERC20Metadata ==
  Facade(<<"contractAddress">>, 1, NoDefaults, getERC20Metadata, <<KEY, "contractAddress">>)

Contract_getContractCode ==
  Facade(<<"contractAddress">>, 1, NoDefaults, getContractCode, <<KEY, "contractAddress">>)

Transaction_getTransactionsByAddress ==
  Facade(<<"address", "explorerKey", "session", "limit", "startBlock", "endBlock">>, 2,
         [session |-> "", limit |-> "20"], getTransactionsByAddress,
         <<KEY, "address", "explorerKey", "session", "limit", "startBlock", "endBlock">>)
Transaction_getTransactionByHash ==
  Facade(<<"txHash">>, 1, NoDefaults, getTransactionByHash, <<KEY, "txHash">>)
Transaction_getTransactionStatus ==
  Facade(<<"txHash">>, 1, NoDefaults, getTransactionStatus, <<KEY, "txHash">>)
Transaction_getTransactionCount ==
  Facade(<<"walletAddress">>, 1, NoDefaults, getTransactionCount, <<KEY, "walletAddress">>)
Transaction_getGasPrice == Facade(<<>>, 0, NoDefaults, getGasPrice, <<KEY>>)
Transaction_getFeeData == Facade(<<>>, 0, NoDefaults, getFeeData, <<KEY>>)
Transaction_estimateGas ==
  Facade(<<"payload">>, 1, NoDefaults, estimateGas, <<KEY, "payload">>)

Block_getCurrentBlock == Facade(<<>>, 0, NoDefaults, getCurrentBlock, <<KEY>>)
Block_getBlockByTag ==
  Facade(<<"blockTag", "txDetail">>, 1, [txDetail |-> "false"],
         getBlockByTag, <<KEY, "blockTag", "txDetail">>)

Network_info == Facade(<<>>, 0, NoDefaults, getNetworkInfo, <<KEY>>)
Network_chainId == Facade(<<>>, 0, NoDefaults, getChainId, <<KEY>>)
Network_clientVersion == Facade(<<>>, 0, NoDefaults, getClientVersion, <<KEY>>)

Defi_getWhitelistedTokens ==
  Facade(<<"protocol">>, 1, NoDefaults, getWhitelistedTokens, <<KEY, "protocol">>)
Defi_getAllFarms == Facade(<<"protocol">>, 1, NoDefaults, getAllFarms, <<KEY, "protocol">>)
Defi_getFarmBySymbol ==
  Facade(<<"protocol", "symbol">>, 2, NoDefaults, getFarmBySymbol, <<KEY, "protocol", "symbol">>)

Exchange_getAllTickers == Facade(<<>>, 0, NoDefaults, getAllTickers, <<KEY>>)
Exchange_getTickerByInstrument ==
  Facade(<<"instrumentName">>, 1, NoDefaults, getTickerByInstrument, <<KEY, "instrumentName">>)

Event_getLogs == Facade(<<"address">>, 1, NoDefaults, getLogs, <<KEY, "address">>)

CronosId_forwardResolve ==
  Facade(<<"cronosId">>, 1, NoDefaults, resolveName, <<"cronosId">>)
CronosId_reverseResolve ==
  Facade(<<"address">>, 1, NoDefaults, lookupAddress, <<"address">>)

WalletOps == {"Wallet.create", "Wallet.balance"}
TokenOps ==
  {"Token.getNativeTokenBalance", "Token.getERC20TokenBalance", "Token.transfer",
   "Token.wrap", "Token.swap", "Token.getERC721TokenBalance", "Token.getTokenOwner",
   "Token.getTokenURI", "Token.getERC721Metadata", "Token.getERC20Metadata"}
ContractOps == {"Contract.getContractCode"}
TransactionOps ==
  {"Transaction.getTransactionsByAddress", "Transaction.getTransactionByHash", "Transaction.getTransactionStatus",
   "Transaction.getTransactionCount", "Transaction.getGasPrice",
   "Transaction.getFeeData", "Transaction.estimateGas"}
BlockOps == {"Block.getCurrentBlock", "Block.getBlockByTag"}
NetworkOps == {"Network.info", "Network.chainId", "Network.clientVersion"}
DefiOps == {"Defi.getWhitelistedTokens", "Defi.getAllFarms", "Defi.getFarmBySymbol"}
ExchangeOps == {"Exchange.getAllTickers", "Exchange.getTickerByInstrument"}
EventOps == {"Event.getLogs"}
CronosIdOps == {"CronosId.forwardResolve", "CronosId.reverseResolve"}

PlainOps ==
  WalletOps \cup TokenOps \cup ContractOps \cup TransactionOps \cup BlockOps
    \cup NetworkOps \cup DefiOps \cup ExchangeOps \cup EventOps

FacadeOps == PlainOps \cup CronosIdOps

FacadeOf(op) ==
  CASE op = "Wallet.create" -> Wallet_create
    [] op = "Wallet.balance" -> Wallet_balance
    [] op = "Token.getNativeTokenBalance" -> Token_getNativeTokenBalance
    [] op = "Token.getERC20TokenBalance" -> Token_getERC20TokenBalance
    [] op = "Token.transfer" -> Token_transfer
    [] op = "Token.wrap" -> Token_wrap
    [] op = "Token.swap" -> Token_swap
    [] op = "Token.getERC721TokenBalance" -> Token_getERC721TokenBalance
    [] op = "Token.getTokenOwner" -> Token_getTokenOwner
    [] op = "Token.getTokenURI" -> Token_getTokenURI
    [] op = "Token.getERC721Metadata" -> Token_getERC721Metadata
    [] op = "Token.getERC20Metadata" -> Token_getERC20Metadata
    [] op = "Contract.getContractCode" -> Contract_getContractCode
    [] op = "Transaction.getTransactionsByAddress" -> Transaction_getTransactionsByAddress
    [] op = "Transaction.getTransactionByHash" -> Transaction_getTransactionByHash
    [] op = "Transaction.getTransactionStatus" -> Transaction_getTransactionStatus
    [] op = "Transaction.getTransactionCount" -> Transaction_getTransactionCount
    [] op = "Transaction.getGasPrice" -> Transaction_getGasPrice
    [] op = "Transaction.getFeeData" -> Transaction_getFeeData
    [] op = "Transaction.estimateGas" -> Transaction_estimateGas
    [] op = "Block.getCurrentBlock" -> Block_getCurrentBlock
    [] op = "Block.getBlockByTag" -> Block_getBlockByTag
    [] op = "Network.info" -> Network_info
    [] op = "Network.chainId" -> Network_chainId
    [] op = "Network.clientVersion" -> Network_clientVersion
    [] op = "Defi.getWhitelistedTokens" -> Defi_getWhitelistedTokens
    [] op = "Defi.getAllFarms" -> Defi_getAllFarms
    [] op = "Defi.getFarmBySymbol" -> Defi_getFarmBySymbol
    [] op = "Exchange.getAllTickers" -> Exchange_getAllTickers
    [] op = "Exchange.getTickerByInstrument" -> Exchange_getTickerByInstrument
    [] op = "Event.getLogs" -> Event_getLogs
    [] op = "CronosId.forwardResolve" -> CronosId_forwardResolve
    [] op = "CronosId.reverseResolve" -> CronosId_reverseResolve

-----------------------------------------------------------------------------
(* Values a caller sees *)

JsUndefined == [type |-> "undefined"]
JsString(text) == [type |-> "string", text |-> text]
JsBoolean(b) == [type |-> "boolean", value |-> b]
JsonNull == [type |-> "null"]
JsonObject(fields) == [type |-> "object", fields |-> fields]
NoValue == [type |-> "none"]

\* a string-or-undefined field as a value
JsValue(v) == IF v = Undefined THEN JsUndefined ELSE JsString(v)

NoOutcome == [kind |-> "none", value |-> NoValue, msg |-> <<>>, log |-> <<>>]
Returned(v) == [kind |-> "returned", value |-> v, msg |-> <<>>, log |-> <<>>]
Raised(msg, log) == [kind |-> "raised", value |-> NoValue, msg |-> msg, log |-> log]

\* the message has the text seg as one of its segments
Contains(msg, seg) == \E i \in DOMAIN msg : msg[i] = seg

-----------------------------------------------------------------------------
(* Client: the configuration store *)

ChainNames ==
  {"Cronos EVM Mainnet", "Cronos EVM Testnet", "Cronos ZK EVM Mainnet", "Cronos ZK EVM Testnet"}

Keys == {"", "key1", "key2"}
Providers == {Undefined, "https://provider-url.com"}
Configs == [apiKey : Keys, provider : Providers, chain : ChainNames \cup {Undefined}]

NoConfig == [apiKey |-> Undefined, provider |-> Undefined, chain |-> Undefined]

ApiKeyNotConfigured ==
  "API key not configured. Call Client.init({ apiKey: 'your-api-key' }) first."

\* Client.getApiKey
Client_getApiKey_onlyUndefined ==
  IF apiKey = Undefined THEN Raised(<<ApiKeyNotConfigured>>, <<>>) ELSE Returned(JsString(apiKey))

Client_getApiKey ==
  IF Falsy(apiKey) THEN Raised(<<ApiKeyNotConfigured>>, <<>>) ELSE Returned(JsString(apiKey))

\* Client.getProvider
Client_getProvider_throws ==
  IF provider = Undefined THEN Raised(<<"Provider not configured">>, <<>>)
  ELSE Returned(JsValue(provider))

Client_getProvider == Returned(JsValue(provider))

\* Client.getChainId
Client_getChainId == chainId

\* the chain identity Client.init keeps
StoredChain(config) == config.chain

-----------------------------------------------------------------------------
(* Transport: what fetch delivers *)

Statuses == {200, 201, 404, 500}

JsonValues ==
  { JsonObject([foo |-> 1]),
    JsonObject([error |-> "not found"]),
    JsonObject([error |-> ""]),
    JsonObject([status |-> "Failed"]),
    JsonNull }

\* a body is the text of a JSON value, or text that is not JSON
Bodies == {[json |-> FALSE]} \cup {[json |-> TRUE, value |-> v] : v \in JsonValues}

Responses ==
  {[kind |-> "failure"]} \cup {[kind |-> "response", status |-> st, body |-> b] : st \in Statuses, b \in Bodies}

NoResp == [kind |-> "none"]
NoReq == [sent |-> FALSE]

\* Response.ok
ok(response) == response.status >= 200 /\ response.status <= 299

FetchFailed == "fetch failed"
JsonSyntaxError == "Unexpected token < in JSON at position 0"
NullTypeError == "Cannot read properties of null (reading 'error')"

-----------------------------------------------------------------------------
(* Calling an integration function *)

Range(seq) == {seq[i] : i \in DOMAIN seq}

IndexOf(seq, x) == CHOOSE i \in DOMAIN seq : seq[i] = x

\* parameters bound to the arguments by position; a missing or undefined
\* argument takes the declared default, if any
Bind_ignoresDefaults(params, defaults, args) ==
  [p \in Range(params) |->
     LET i == IndexOf(params, p)
     IN  IF i <= Len(args) /\ args[i] # Undefined THEN args[i] ELSE Undefined]

Bind(params, defaults, args) ==
  [p \in Range(params) |->
     LET i == IndexOf(params, p)
     IN  IF i <= Len(args) /\ args[i] # Undefined THEN args[i]
         ELSE IF p \in DOMAIN defaults THEN defaults[p]
         ELSE Undefined]

\* a template literal: parameter names are replaced by their values
Render(template, b) ==
  [i \in DOMAIN template |-> IF template[i] \in DOMAIN b THEN b[template[i]] ELSE template[i]]

\* the sample value a caller passes for parameter p
Sample(p) == "<" \o p \o ">"

\* the fields of the object a payload argument refers to
ObjectFields(payload) ==
  IF payload = Sample("payload") THEN [to |-> "0xRecipient", amount |-> 5]
  ELSE [p \in {} |-> ""]

\* JSON.stringify of the body object: the payload's fields, then the named
\* members, which replace a payload field of the same name; undefined
\* members are left out
BodyOf_dropsProvider(fn, b) ==
  LET named == Range(fn.body) \ {"...payload"}
      spread == IF "...payload" \in Range(fn.body)
                THEN ObjectFields(b["payload"]) ELSE [p \in {} |-> ""]
  IN  [k \in DOMAIN spread \ named |-> spread[k]]

BodyOf(fn, b) ==
  LET named == Range(fn.body) \ {"...payload"}
      spread == IF "...payload" \in Range(fn.body)
                THEN ObjectFields(b["payload"]) ELSE [p \in {} |-> ""]
  IN  [k \in (DOMAIN spread \ named) \cup {q \in named : b[q] # Undefined} |->
         IF k \in named THEN b[k] ELSE spread[k]]

\* the request handed to fetch
RequestOf(fn, args) ==
  LET b == Bind(fn.params, fn.defaults, args)
  IN  [sent |-> TRUE,
       method |-> fn.method,
       url |-> Render(fn.path, b),
       headers |-> IF fn.keyHeader
                   THEN [contentType |-> "application/json", xApiKey |-> b["apiKey"]]
                   ELSE [contentType |-> "application/json"],
       body |-> BodyOf(fn, b)]

\* the catch block of every integration function: log, wrap, re-throw
Catch_dropsCause(fn, args, message) ==
  LET b == Bind(fn.params, fn.defaults, args)
  IN  Raised(Render(fn.fail, b), <<fn.tag, message>>)

Catch(fn, args, message) ==
  LET b == Bind(fn.params, fn.defaults, args)
  IN  Raised(Render(fn.fail, b) \o <<message>>, <<fn.tag, message>>)

\* the code after `await fetch`, for the response or failure delivered
Settle_ignoresErrorField(fn, args, response) ==
  IF response.kind = "failure" THEN Catch(fn, args, FetchFailed)
  ELSE IF ~ok(response)
       THEN IF ~response.body.json THEN Catch(fn, args, JsonSyntaxError)
            ELSE Catch(fn, args, "HTTP error! status: " \o ToString(response.status))
  ELSE IF ~response.body.json THEN Catch(fn, args, JsonSyntaxError)
  ELSE Returned(response.body.value)

Settle_noStatus(fn, args, response) ==
  IF response.kind = "failure" THEN Catch(fn, args, FetchFailed)
  ELSE IF ~ok(response)
       THEN IF ~response.body.json THEN Catch(fn, args, JsonSyntaxError)
            ELSE IF response.body.value.type = "null" THEN Catch(fn, args, NullTypeError)
            ELSE LET errorBody == response.body.value.fields
                     serverErrorMessage ==
                       IF "error" \in DOMAIN errorBody /\ ~Falsy(errorBody.error)
                       THEN errorBody.error
                       ELSE "HTTP error!"
                 IN  Catch(fn, args, serverErrorMessage)
  ELSE IF ~response.body.json THEN Catch(fn, args, JsonSyntaxError)
  ELSE Returned(response.body.value)

Settle_unwraps(fn, args, response) ==
  IF response.kind = "failure" THEN Catch(fn, args, FetchFailed)
  ELSE IF ~ok(response)
       THEN IF ~response.body.json THEN Catch(fn, args, JsonSyntaxError)
            ELSE IF response.body.value.type = "null" THEN Catch(fn, args, NullTypeError)
            ELSE LET errorBody == response.body.value.fields
                     serverErrorMessage ==
                       IF "error" \in DOMAIN errorBody /\ ~Falsy(errorBody.error)
                       THEN errorBody.error
                       ELSE "HTTP error! status: " \o ToString(response.status)
                 IN  Catch(fn, args, serverErrorMessage)
  ELSE IF ~response.body.json THEN Catch(fn, args, JsonSyntaxError)
  ELSE IF response.body.value.type = "object" /\ "foo" \in DOMAIN response.body.value.fields
       THEN Returned(JsonObject([data |-> response.body.value.fields]))
       ELSE Returned(response.body.value)

Settle_statusBeforeParse(fn, args, response) ==
  IF response.kind = "failure" THEN Catch(fn, args, FetchFailed)
  ELSE IF ~ok(response)
       THEN IF ~response.body.json
            THEN Catch(fn, args, "HTTP error! status: " \o ToString(response.status))
            ELSE IF response.body.value.type = "null" THEN Catch(fn, args, NullTypeError)
            ELSE LET errorBody == response.body.value.fields
                     serverErrorMessage ==
                       IF "error" \in DOMAIN errorBody /\ ~Falsy(errorBody.error)
                       THEN errorBody.error
                       ELSE "HTTP error! status: " \o ToString(response.status)
                 IN  Catch(fn, args, serverErrorMessage)
  ELSE IF ~response.body.json THEN Catch(fn, args, JsonSyntaxError)
  ELSE Returned(response.body.value)

Settle_raisesOnErrorField(fn, args, response) ==
  IF response.kind = "failure" THEN Catch(fn, args, FetchFailed)
  ELSE IF ~response.body.json THEN Catch(fn, args, JsonSyntaxError)
  ELSE IF response.body.value.type = "null"
       THEN IF ok(response) THEN Returned(response.body.value)
            ELSE Catch(fn, args, NullTypeError)
  ELSE LET errorBody == response.body.value.fields
           serverErrorMessage ==
             IF "error" \in DOMAIN errorBody /\ ~Falsy(errorBody.error)
             THEN errorBody.error
             ELSE "HTTP error! status: " \o ToString(response.status)
       IN  IF ok(response) /\ "error" \notin DOMAIN errorBody
           THEN Returned(response.body.value)
           ELSE Catch(fn, args, serverErrorMessage)

Settle(fn, args, response) ==
  IF response.kind = "failure" THEN Catch(fn, args, FetchFailed)
  ELSE IF ~ok(response)
       THEN IF ~response.body.json THEN Catch(fn, args, JsonSyntaxError)
            ELSE IF response.body.value.type = "null" THEN Catch(fn, args, NullTypeError)
            ELSE LET errorBody == response.body.value.fields
                     serverErrorMessage ==
                       IF "error" \in DOMAIN errorBody /\ ~Falsy(errorBody.error)
                       THEN errorBody.error
                       ELSE "HTTP error! status: " \o ToString(response.status)
                 IN  Catch(fn, args, serverErrorMessage)
  ELSE IF ~response.body.json THEN Catch(fn, args, JsonSyntaxError)
  ELSE Returned(response.body.value)

-----------------------------------------------------------------------------
(* Calls *)

Idle ==
  [pc |-> "idle", op |-> "none", args |-> <<>>, fnArgs |-> <<>>,
   req |-> NoReq, fetches |-> 0, resp |-> NoResp, out |-> NoOutcome]

\* a call that ended before any request was made
Ended(op, args, outcome) ==
  [pc |-> "done", op |-> op, args |-> args, fnArgs |-> <<>>,
   req |-> NoReq, fetches |-> 0, resp |-> NoResp, out |-> outcome]

\* a call suspended at `await fetch(url, ...)`
Pending(op, args, fn, fnArgs) ==
  [pc |-> "pending", op |-> op, args |-> args, fnArgs |-> fnArgs,
   req |-> RequestOf(fn, fnArgs), fetches |-> 1, resp |-> NoResp, out |-> NoOutcome]

Callers == DOMAIN calls

\* the caller is not inside a call
Free(c) == calls[c].pc \in {"idle", "done"}

\* the arguments a caller may pass: one sample value per parameter, the
\* optional ones given or left out
ArgLists(f) ==
  {[i \in 1..n |-> Sample(f.params[i])] : n \in f.required..Len(f.params)}

ResolveNames ==
  { <<"a", ".", "c", "r", "o">>, <<"A", ".", "C", "R", "O">>, <<"a">>,
    <<".", "c", "r", "o">>, <<>> }

Addresses == {"0xAddress", "not-an-address", ""}

\* the integration function is entered with the facade's argument values
\* and runs up to its first await
CallApi(c, op, args) ==
  LET f == FacadeOf(op)
      fb == Bind(f.params, f.defaults, args)
      fnArgs == [i \in DOMAIN f.actuals |->
                   IF f.actuals[i] = KEY THEN Client_getApiKey.value.text
                   ELSE IF f.actuals[i] = PROVIDER THEN provider
                   ELSE fb[f.actuals[i]]]
  IN  calls' = [calls EXCEPT ![c] = Pending(op, args, f.fn, fnArgs)]

\* a facade method of the form
\*   return await fn(Client.getApiKey(), ...)
Invoke_skipsKeyCheck(c, op, args) ==
  /\ Free(c)
  /\ IF KEY \in Range(FacadeOf(op).actuals) /\ apiKey = Undefined
     THEN calls' = [calls EXCEPT ![c] = Ended(op, args, Client_getApiKey)]
     ELSE LET f == FacadeOf(op)
              fb == Bind(f.params, f.defaults, args)
              fnArgs == [i \in DOMAIN f.actuals |->
                           IF f.actuals[i] = KEY THEN apiKey
                           ELSE IF f.actuals[i] = PROVIDER THEN provider
                           ELSE fb[f.actuals[i]]]
          IN  calls' = [calls EXCEPT ![c] = Pending(op, args, f.fn, fnArgs)]
  /\ UNCHANGED <<clientVars, histVars, validatorVars>>

Invoke_clearsProvider(c, op, args) ==
  /\ Free(c)
  /\ IF KEY \in Range(FacadeOf(op).actuals) /\ Client_getApiKey.kind = "raised"
     THEN calls' = [calls EXCEPT ![c] = Ended(op, args, Client_getApiKey)]
     ELSE CallApi(c, op, args)
  /\ provider' = IF PROVIDER \in Range(FacadeOf(op).actuals) THEN Undefined ELSE provider
  /\ UNCHANGED <<apiKey, chainId, histVars, validatorVars>>

Invoke(c, op, args) ==
  /\ Free(c)
  /\ IF KEY \in Range(FacadeOf(op).actuals) /\ Client_getApiKey.kind = "raised"
     THEN calls' = [calls EXCEPT ![c] = Ended(op, args, Client_getApiKey)]
     ELSE CallApi(c, op, args)
  /\ UNCHANGED <<clientVars, histVars, validatorVars>>

Wallet(c) == \E op \in WalletOps : \E args \in ArgLists(FacadeOf(op)) : Invoke(c, op, args)
Token(c) == \E op \in TokenOps : \E args \in ArgLists(FacadeOf(op)) : Invoke(c, op, args)
Contract(c) == \E op \in ContractOps : \E args \in ArgLists(FacadeOf(op)) : Invoke(c, op, args)
Transaction(c) == \E op \in TransactionOps : \E args \in ArgLists(FacadeOf(op)) : Invoke(c, op, args)
Block(c) == \E op \in BlockOps : \E args \in ArgLists(FacadeOf(op)) : Invoke(c, op, args)
Network(c) == \E op \in NetworkOps : \E args \in ArgLists(FacadeOf(op)) : Invoke(c, op, args)
Defi(c) == \E op \in DefiOps : \E args \in ArgLists(FacadeOf(op)) : Invoke(c, op, args)
Exchange(c) == \E op \in ExchangeOps : \E args \in ArgLists(FacadeOf(op)) : Invoke(c, op, args)
Event(c) == \E op \in EventOps : \E args \in ArgLists(FacadeOf(op)) : Invoke(c, op, args)

-----------------------------------------------------------------------------
(* CronosId *)

supportedChains_withZk ==
  {"Cronos EVM Mainnet", "Cronos EVM Testnet", "Cronos ZK EVM Mainnet"}

supportedChains == {"Cronos EVM Mainnet", "Cronos EVM Testnet"}

isSupported_always == TRUE

isSupported == Client_getChainId \in supportedChains

NotSupported == "CronosId is not supported on the current chain"
InvalidFormat == "Invalid CronosId format: "

forwardResolve_noFormatCheck(c, cronosId) ==
  /\ Free(c)
  /\ IF ~isSupported
     THEN calls' = [calls EXCEPT ![c] =
                      Ended("CronosId.forwardResolve", <<Text(cronosId)>>,
                            Raised(<<NotSupported>>, <<>>))]
     ELSE CallApi(c, "CronosId.forwardResolve", <<Text(cronosId)>>)
  /\ UNCHANGED <<clientVars, histVars, validatorVars>>

forwardResolve_nameFirst(c, cronosId) ==
  /\ Free(c)
  /\ IF ~isCronosId(cronosId)
     THEN calls' = [calls EXCEPT ![c] =
                      Ended("CronosId.forwardResolve", <<Text(cronosId)>>,
                            Raised(<<InvalidFormat, Text(cronosId)>>, <<>>))]
     ELSE IF ~isSupported
     THEN calls' = [calls EXCEPT ![c] =
                      Ended("CronosId.forwardResolve", <<Text(cronosId)>>,
                            Raised(<<NotSupported>>, <<>>))]
     ELSE CallApi(c, "CronosId.forwardResolve", <<Text(cronosId)>>)
  /\ UNCHANGED <<clientVars, histVars, validatorVars>>

forwardResolve(c, cronosId) ==
  /\ Free(c)
  /\ IF ~isSupported
     THEN calls' = [calls EXCEPT ![c] =
                      Ended("CronosId.forwardResolve", <<Text(cronosId)>>,
                            Raised(<<NotSupported>>, <<>>))]
     ELSE IF ~isCronosId(cronosId)
     THEN calls' = [calls EXCEPT ![c] =
                      Ended("CronosId.forwardResolve", <<Text(cronosId)>>,
                            Raised(<<InvalidFormat, Text(cronosId)>>, <<>>))]
     ELSE CallApi(c, "CronosId.forwardResolve", <<Text(cronosId)>>)
  /\ UNCHANGED <<clientVars, histVars, validatorVars>>

reverseResolve(c, address) ==
  /\ Free(c)
  /\ IF ~isSupported
     THEN calls' = [calls EXCEPT ![c] =
                      Ended("CronosId.reverseResolve", <<address>>,
                            Raised(<<NotSupported>>, <<>>))]
     ELSE CallApi(c, "CronosId.reverseResolve", <<address>>)
  /\ UNCHANGED <<clientVars, histVars, validatorVars>>

IsSupported(c) ==
  /\ Free(c)
  /\ calls' = [calls EXCEPT ![c] =
                Ended("CronosId.isSupported", <<>>, Returned(JsBoolean(isSupported)))]
  /\ UNCHANGED <<clientVars, histVars, validatorVars>>

ForwardResolve(c) == \E cronosId \in ResolveNames : forwardResolve(c, cronosId)
ReverseResolve(c) == \E address \in Addresses : reverseResolve(c, address)

-----------------------------------------------------------------------------
(* Client operations *)

init_onlyOnce(config) ==
  /\ IF inited
     THEN UNCHANGED clientVars
     ELSE /\ apiKey' = config.apiKey
          /\ provider' = config.provider
          /\ chainId' = StoredChain(config)
  /\ inited' = TRUE
  /\ lastInit' = config
  /\ UNCHANGED <<calls, validatorVars>>

init_validatesKey(config) ==
  /\ ~Falsy(config.apiKey)
  /\ apiKey' = config.apiKey
  /\ provider' = config.provider
  /\ chainId' = StoredChain(config)
  /\ inited' = TRUE
  /\ lastInit' = config
  /\ UNCHANGED <<calls, validatorVars>>

init_rewritesRequests(config) ==
  /\ apiKey' = config.apiKey
  /\ provider' = config.provider
  /\ chainId' = StoredChain(config)
  /\ inited' = TRUE
  /\ lastInit' = config
  /\ calls' = [c \in DOMAIN calls |->
                IF calls[c].pc = "pending" /\ "xApiKey" \in DOMAIN calls[c].req.headers
                THEN [calls[c] EXCEPT !.req.headers.xApiKey = config.apiKey]
                ELSE calls[c]]
  /\ UNCHANGED validatorVars

init(config) ==
  /\ apiKey' = config.apiKey
  /\ provider' = config.provider
  /\ chainId' = StoredChain(config)
  /\ inited' = TRUE
  /\ lastInit' = config
  /\ UNCHANGED <<calls, validatorVars>>

ClientInit == \E config \in Configs : init(config)

GetApiKey(c) ==
  /\ Free(c)
  /\ calls' = [calls EXCEPT ![c] = Ended("Client.getApiKey", <<>>, Client_getApiKey)]
  /\ UNCHANGED <<clientVars, histVars, validatorVars>>

GetProvider(c) ==
  /\ Free(c)
  /\ calls' = [calls EXCEPT ![c] = Ended("Client.getProvider", <<>>, Client_getProvider)]
  /\ UNCHANGED <<clientVars, histVars, validatorVars>>

-----------------------------------------------------------------------------
(* Transport delivers the response, or fails, and the call runs to its end *)

Respond_retries(c) ==
  /\ calls[c].pc = "pending"
  /\ \E response \in Responses :
       IF response.kind = "failure" /\ calls[c].fetches < 2
       THEN calls' = [calls EXCEPT ![c] = [@ EXCEPT !.fetches = @ + 1]]
       ELSE calls' = [calls EXCEPT ![c] =
                       [@ EXCEPT !.pc = "done", !.resp = response,
                                 !.out = Settle(FacadeOf(calls[c].op).fn, calls[c].fnArgs, response)]]
  /\ UNCHANGED <<clientVars, histVars, validatorVars>>

Respond_sharesResponse(c) ==
  /\ calls[c].pc = "pending"
  /\ \E response \in Responses :
       calls' = [d \in DOMAIN calls |->
                   IF calls[d].pc = "pending"
                   THEN [calls[d] EXCEPT !.pc = "done", !.resp = response,
                           !.out = Settle(FacadeOf(calls[c].op).fn, calls[c].fnArgs, response)]
                   ELSE calls[d]]
  /\ UNCHANGED <<clientVars, histVars, validatorVars>>

Respond_hangsOnFailure(c) ==
  /\ calls[c].pc = "pending"
  /\ \E response \in Responses :
       IF response.kind = "failure"
       THEN calls' = [calls EXCEPT ![c] = [@ EXCEPT !.pc = "waiting"]]
       ELSE calls' = [calls EXCEPT ![c] =
                       [@ EXCEPT !.pc = "done", !.resp = response,
                                 !.out = Settle(FacadeOf(calls[c].op).fn, calls[c].fnArgs, response)]]
  /\ UNCHANGED <<clientVars, histVars, validatorVars>>

Respond(c) ==
  /\ calls[c].pc = "pending"
  /\ \E response \in Responses :
       calls' = [calls EXCEPT ![c] =
                   [@ EXCEPT !.pc = "done", !.resp = response,
                             !.out = Settle(FacadeOf(calls[c].op).fn, calls[c].fnArgs, response)]]
  /\ UNCHANGED <<clientVars, histVars, validatorVars>>

-----------------------------------------------------------------------------
(* The SDK in use: one caller, any sequence of operations *)

Init ==
  /\ apiKey = Undefined
  /\ provider = Undefined
  /\ chainId = Undefined
  /\ inited = FALSE
  /\ lastInit = NoConfig
  /\ calls = [c \in {"c1"} |-> Idle]
  /\ input = <<>>
  /\ result = "none"

Next ==
  \/ ClientInit
  \/ \E c \in Callers : GetApiKey(c)
  \/ \E c \in Callers : GetProvider(c)
  \/ \E c \in Callers : Wallet(c)
  \/ \E c \in Callers : Token(c)
  \/ \E c \in Callers : Contract(c)
  \/ \E c \in Callers : Transaction(c)
  \/ \E c \in Callers : Block(c)
  \/ \E c \in Callers : Network(c)
  \/ \E c \in Callers : Defi(c)
  \/ \E c \in Callers : Exchange(c)
  \/ \E c \in Callers : Event(c)
  \/ \E c \in Callers : IsSupported(c)
  \/ \E c \in Callers : ForwardResolve(c)
  \/ \E c \in Callers : ReverseResolve(c)
  \/ \E c \in Callers : Respond(c)

Spec == Init /\ [][Next]_vars

-----------------------------------------------------------------------------
(* The validator alone: CronosId.isCronosId applied to each string of Names *)

IsCronosId ==
  /\ result = "none"
  /\ result' = IF isCronosId(input) THEN "true" ELSE "false"
  /\ UNCHANGED <<clientVars, histVars, calls, input>>

InitValidator ==
  /\ apiKey = Undefined
  /\ provider = Undefined
  /\ chainId = Undefined
  /\ inited = FALSE
  /\ lastInit = NoConfig
  /\ calls = [c \in {"c1"} |-> Idle]
  /\ input \in Names
  /\ result = "none"

NextValidator == IsCronosId

SpecValidator == InitValidator /\ [][NextValidator]_vars

-----------------------------------------------------------------------------
(* Two callers with calls in flight at the same time: Transaction.getGasPrice, *)
(* Transaction.getFeeData and Token.transfer, with Client.init at any moment   *)

ConcurrentCallers == {"c1", "c2"}

ConcurrentConfigs ==
  [apiKey : {"key1", "key2"}, provider : Providers, chain : {"Cronos EVM Mainnet"}]

Configure == \E config \in ConcurrentConfigs : init(config)

GetGasPrice(c) == Invoke(c, "Transaction.getGasPrice", <<>>)

GetFeeData(c) == Invoke(c, "Transaction.getFeeData", <<>>)

Transfer(c) == Invoke(c, "Token.transfer", <<Sample("payload")>>)

InitConcurrent ==
  /\ apiKey = Undefined
  /\ provider = Undefined
  /\ chainId = Undefined
  /\ inited = FALSE
  /\ lastInit = NoConfig
  /\ calls = [c \in ConcurrentCallers |-> Idle]
  /\ input = <<>>
  /\ result = "none"

NextConcurrent ==
  \/ Configure
  \/ \E c \in ConcurrentCallers : GetGasPrice(c)
  \/ \E c \in ConcurrentCallers : GetFeeData(c)
  \/ \E c \in ConcurrentCallers : Transfer(c)
  \/ \E c \in ConcurrentCallers : Respond(c)

SpecConcurrent == InitConcurrent /\ [][NextConcurrent]_vars

\* the transport answers every request in the end, by a response or a failure
SpecConcurrentLive ==
  SpecConcurrent /\ \A c \in ConcurrentCallers : WF_vars(Respond(c))

-----------------------------------------------------------------------------
(* Properties *)

\* caller c has entered an operation in this step
Entered(c) == Free(c) /\ calls'[c] # calls[c]

AllowList == {"Cronos EVM Mainnet", "Cronos EVM Testnet"}

\* C1: a facade operation called while Client.init has never been called
\* raises the 'API key not configured' error and issues no HTTP request.
C1_Claim ==
  \A c \in Callers :
    (~inited /\ calls[c].op \in FacadeOps) =>
      /\ calls[c].pc = "done"
      /\ calls[c].out = Raised(<<ApiKeyNotConfigured>>, <<>>)
      /\ calls[c].fetches = 0

\* the text before the first occurrence of sep in s; all of s if there is none
RECURSIVE BeforeFirst(_, _, _)
BeforeFirst(s, sep, i) ==
  IF i > Len(s) THEN s
  ELSE IF OccursAt(s, sep, i) THEN SubSeq(s, 1, i - 1)
  ELSE BeforeFirst(s, sep, i + 1)

\* C2: isCronosId(s) is true exactly when the lowercased s ends with '.cro'
\* and the text before the first '.cro' of the lowercased s is non-empty;
\* 'alice.cro', 'ALICE.CRO' and 'a.cro.cro' are valid, 'alice' and '.cro' are not.
C2_Theorem ==
  result # "none" =>
    /\ (result = "true") <=>
         /\ endsWith(toLowerCase(input), DotCro)
         /\ BeforeFirst(toLowerCase(input), DotCro, 1) # <<>>
    /\ input \in {AliceCro, AliceCroUpper, <<"a">> \o DotCro \o DotCro} => result = "true"
    /\ input \in {Alice, DotCro} => result = "false"

C2_Witness == result = "true" /\ input = <<"a">> \o DotCro \o DotCro

\* C3: isCronosId(s) is true exactly when s ends with '.cro', whatever the
\* case, and has more than 4 characters, also when '.cro' occurs more than once.
C3_Claim ==
  result # "none" =>
    ((result = "true") <=> (endsWith(toLowerCase(input), DotCro) /\ Len(input) > 4))

\* C4: once Client.init has been called the stored apiKey and provider never
\* change again, whatever operation follows.
C4_Claim == [][inited => (apiKey' = apiKey /\ provider' = provider)]_vars

\* C4, amended: the stored apiKey and provider are those of the most recent
\* Client.init; no facade call or getter changes them.
C4_Amended ==
  /\ inited => (apiKey = lastInit.apiKey /\ provider = lastInit.provider)
  /\ ~inited => (apiKey = Undefined /\ provider = Undefined)

C4_Witness ==
  \E c \in Callers :
    /\ calls[c].op = "Client.getApiKey"
    /\ calls[c].out = Returned(JsString("key1"))
    /\ apiKey = "key2"

\* C5: Client.getApiKey raises the configuration error exactly when no
\* non-empty key is stored (init never called, or called with an empty key),
\* otherwise returns the key passed to init; it changes nothing in the store.
C5_Theorem ==
  [][\A c \in Callers :
       (Entered(c) /\ calls'[c].op = "Client.getApiKey") =>
         /\ (calls'[c].out.kind = "raised") <=> (~inited \/ lastInit.apiKey = "")
         /\ calls'[c].out.kind = "raised" => calls'[c].out.msg = <<ApiKeyNotConfigured>>
         /\ calls'[c].out.kind # "raised" => calls'[c].out = Returned(JsString(lastInit.apiKey))
         /\ UNCHANGED clientVars]_vars

C5_Witness ==
  \E c \in Callers :
    /\ calls[c].op = "Client.getApiKey"
    /\ calls[c].out.kind = "raised"
    /\ inited
    /\ apiKey = ""

GotObject(c) ==
  /\ calls[c].pc = "done"
  /\ calls[c].resp.kind = "response"
  /\ calls[c].resp.body.json
  /\ calls[c].resp.body.value.type = "object"

\* C7: a non-2xx response whose JSON body has a non-empty error field e makes
\* the operation raise an error whose message contains e; no value is returned.
C7_Theorem ==
  \A c \in Callers :
    (/\ GotObject(c)
     /\ ~ok(calls[c].resp)
     /\ "error" \in DOMAIN calls[c].resp.body.value.fields
     /\ calls[c].resp.body.value.fields.error # "") =>
      /\ calls[c].out.kind = "raised"
      /\ Contains(calls[c].out.msg, calls[c].resp.body.value.fields.error)
      /\ calls[c].out.value = NoValue

C7_Witness ==
  \E c \in Callers :
    /\ calls[c].op = "Transaction.getTransactionByHash"
    /\ GotObject(c)
    /\ calls[c].resp.status = 404
    /\ calls[c].resp.body.value = JsonObject([error |-> "not found"])
    /\ calls[c].out.msg = <<"Failed to fetch transaction: ", "not found">>

C9_Theorem ==
  \A c \in Callers :
    (/\ calls[c].pc = "done"
     /\ calls[c].resp.kind = "response"
     /\ ok(calls[c].resp)
     /\ calls[c].resp.body.json) =>
      calls[c].out = Returned(calls[c].resp.body.value)

C9_Witness ==
  \E c \in Callers :
    /\ calls[c].op = "Wallet.balance"
    /\ calls[c].resp.kind = "response"
    /\ calls[c].resp.status = 200
    /\ calls[c].out = Returned(JsonObject([foo |-> 1]))

\* C10: forwardResolve and reverseResolve, called while the configured chain
\* is not one of the two allow-listed chains, raise the 'CronosId is not
\* supported on the current chain' error and issue no HTTP request.
C10_Theorem ==
  [][\A c \in Callers :
       (Entered(c) /\ calls'[c].op \in CronosIdOps /\ chainId \notin AllowList) =>
         /\ calls'[c].pc = "done"
         /\ calls'[c].out = Raised(<<NotSupported>>, <<>>)
         /\ calls'[c].fetches = 0
         /\ calls'[c].req = NoReq]_vars

C10_Witness ==
  \E c \in Callers :
    /\ calls[c].op = "CronosId.reverseResolve"
    /\ calls[c].out = Raised(<<NotSupported>>, <<>>)
    /\ calls[c].fetches = 0
    /\ inited
    /\ chainId = "Cronos ZK EVM Testnet"

C12_Theorem ==
  [][\A c \in Callers : \A name \in ResolveNames :
       (/\ Entered(c)
        /\ calls'[c].op = "CronosId.forwardResolve"
        /\ calls'[c].args = <<Text(name)>>
        /\ chainId \in AllowList
        /\ ~isCronosId(name)) =>
         /\ calls'[c].pc = "done"
         /\ calls'[c].out = Raised(<<InvalidFormat, Text(name)>>, <<>>)
         /\ calls'[c].fetches = 0
         /\ calls'[c].req = NoReq]_vars

C12_Witness ==
  \E c \in Callers :
    /\ calls[c].op = "CronosId.forwardResolve"
    /\ calls[c].args = <<".cro">>
    /\ calls[c].out = Raised(<<InvalidFormat, ".cro">>, <<>>)
    /\ calls[c].fetches = 0
    /\ chainId = "Cronos EVM Mainnet"

\* the resolve and lookup endpoints
ResolveEndpoint == <<Base, "/cronosid/resolve/">>
LookupEndpoint == <<Base, "/cronosid/lookup/">>

\* C13: with the client initialised on a supported chain and a valid name n,
\* CronosId.forwardResolve(n) issues exactly one request, to the resolve
\* endpoint, whose path ends with n and whose x-api-key header is the
\* configured API key, and returns that request's parsed response.
C13_Claim ==
  [][\A c \in Callers :
       /\ \A name \in ResolveNames :
            (/\ Entered(c)
             /\ calls'[c].op = "CronosId.forwardResolve"
             /\ calls'[c].args = <<Text(name)>>
             /\ inited
             /\ chainId \in AllowList
             /\ isCronosId(name)) =>
              /\ calls'[c].fetches = 1
              /\ calls'[c].req.sent
              /\ calls'[c].req.url = ResolveEndpoint \o <<Text(name)>>
              /\ calls'[c].req.headers.xApiKey = apiKey
       /\ (/\ calls[c].pc = "pending"
           /\ calls[c].op = "CronosId.forwardResolve"
           /\ calls'[c].pc = "done"
           /\ calls'[c].resp.kind = "response"
           /\ ok(calls'[c].resp)
           /\ calls'[c].resp.body.json) =>
            /\ calls'[c].fetches = 1
            /\ calls'[c].out = Returned(calls'[c].resp.body.value)]_vars

\* C14: on a supported chain CronosId.reverseResolve(address) validates
\* nothing: for every string, the empty one and those that are no hex address
\* included, it raises no validation error and issues one request to the
\* lookup endpoint that carries the address unchanged.
C14_Claim ==
  [][\A c \in Callers : \A address \in Addresses :
       (/\ Entered(c)
        /\ calls'[c].op = "CronosId.reverseResolve"
        /\ calls'[c].args = <<address>>
        /\ chainId \in AllowList) =>
         /\ calls'[c].pc = "pending"
         /\ calls'[c].fetches = 1
         /\ calls'[c].req.sent
         /\ calls'[c].req.url = LookupEndpoint \o <<address>>]_vars

\* C15: a facade call issues at most one HTTP request in its lifetime: after
\* a non-2xx response, an unparsable body or a transport failure no second
\* request is made for it, and the error is raised to the caller.
C15_Theorem ==
  [][\A c \in Callers :
       /\ calls'[c].fetches <= 1
       /\ calls[c].pc = "pending" =>
            /\ calls'[c].fetches = calls[c].fetches
            /\ calls'[c].req = calls[c].req
            /\ calls'[c].pc \in {"pending", "done"}
            /\ (/\ calls'[c].pc = "done"
                /\ \/ calls'[c].resp.kind = "failure"
                   \/ ~ok(calls'[c].resp)
                   \/ ~calls'[c].resp.body.json) => calls'[c].out.kind = "raised"]_vars

C15_Witness ==
  \E c \in Callers :
    /\ calls[c].op = "Token.transfer"
    /\ calls[c].pc = "done"
    /\ calls[c].resp.kind = "failure"
    /\ calls[c].fetches = 1
    /\ calls[c].out.kind = "raised"

\* the facade operations of the authenticated endpoints
AuthenticatedOps == FacadeOps \ ExchangeOps

\* C16: every request of a facade operation of Wallet, Token, Transaction,
\* Block, Contract, Network, Defi, Event or CronosId carries
\* Content-Type: application/json and an x-api-key header equal to the API
\* key stored in the Client when the operation was invoked.
C16_Claim ==
  [][\A c \in Callers :
       (Entered(c) /\ calls'[c].op \in AuthenticatedOps /\ calls'[c].req.sent) =>
         /\ calls'[c].req.headers.contentType = "application/json"
         /\ "xApiKey" \in DOMAIN calls'[c].req.headers
         /\ calls'[c].req.headers.xApiKey = apiKey]_vars

\* the payload's fields with the stored provider added, when there is one
WithProvider(fields) ==
  [k \in DOMAIN fields \cup (IF provider = Undefined THEN {} ELSE {"provider"}) |->
     IF k = "provider" THEN provider ELSE fields[k]]

\* C17: Token.transfer, Token.wrap and Token.swap send a POST whose body is
\* the caller's payload fields plus a provider field holding the provider
\* stored at call time, absent when none is configured; no other facade
\* operation sends the provider.
C17_Theorem ==
  [][\A c \in Callers :
       (Entered(c) /\ calls'[c].op \in FacadeOps /\ calls'[c].req.sent) =>
         IF calls'[c].op \in {"Token.transfer", "Token.wrap", "Token.swap"}
         THEN /\ calls'[c].req.method = "POST"
              /\ calls'[c].req.body = WithProvider([to |-> "0xRecipient", amount |-> 5])
         ELSE "provider" \notin DOMAIN calls'[c].req.body]_vars

C17_Witness ==
  \E c \in Callers :
    /\ calls[c].op = "Token.swap"
    /\ calls[c].req.sent
    /\ calls[c].req.body =
         [to |-> "0xRecipient", amount |-> 5, provider |-> "https://provider-url.com"]
    /\ provider = "https://provider-url.com"

\* the value of the i-th argument of a call, or the default when it is omitted
Given(args, i, default) == IF i <= Len(args) THEN args[i] ELSE default

\* C18: an optional parameter the caller omits takes the declared default:
\* Block.getBlockByTag(tag) sends txDetail='false',
\* Transaction.getTransactionsByAddress(address, explorerKey) passes
\* limit='20', Token.getERC20TokenBalance(address, contract) sends
\* blockHeight='latest'; a value the caller supplies is sent instead.
C18_Theorem ==
  [][\A c \in Callers :
       (Entered(c) /\ calls'[c].pc = "pending") =>
         LET args == calls'[c].args
         IN  /\ calls'[c].op = "Block.getBlockByTag" =>
                  calls'[c].req.url =
                    <<Base, "/block/block-tag?blockTag=", args[1],
                      "&txDetail=", Given(args, 2, "false")>>
             /\ calls'[c].op = "Transaction.getTransactionsByAddress" =>
                  /\ calls'[c].fnArgs[5] = Given(args, 4, "20")
                  /\ calls'[c].fnArgs[2] = args[1]
                  /\ calls'[c].fnArgs[3] = args[2]
             /\ calls'[c].op = "Token.getERC20TokenBalance" =>
                  calls'[c].req.url =
                    <<Base, "/token/erc20-token-balance?walletAddress=", args[1],
                      "&contractAddress=", args[2],
                      "&blockHeight=", Given(args, 3, "latest")>>]_vars

C18_Witness ==
  \E c \in Callers :
    /\ calls[c].op = "Transaction.getTransactionsByAddress"
    /\ calls[c].args = <<Sample("address"), Sample("explorerKey")>>
    /\ calls[c].pc = "pending"
    /\ calls[c].fnArgs[5] = "20"

\* the facade operations, by integration module
Modules ==
  {WalletOps, TokenOps, ContractOps, TransactionOps, BlockOps, NetworkOps,
   DefiOps, ExchangeOps, EventOps, CronosIdOps}

\* the call of c made a request and ended with a wrapped failure
Wrapped(c) ==
  /\ calls[c].pc = "done"
  /\ calls[c].resp.kind # "none"
  /\ calls[c].out.kind = "raised"

\* C19: the prefix with which a failure is wrapped identifies the operation:
\* no other operation of the same integration module raises errors with that
\* prefix; a failure of Network.clientVersion can be told from one of
\* Network.chainId.
C19_Claim ==
  \A c \in Callers :
    Wrapped(c) =>
      \A ops \in Modules : \A other \in ops :
        (calls[c].op \in ops /\ other # calls[c].op) =>
          /\ calls[c].out.msg[1] # FacadeOf(other).fn.fail[1]
          /\ calls[c].out.log[1] # FacadeOf(other).fn.tag

ModuleNames ==
  {"walletApi", "tokenApi", "contractApi", "transactionApi", "blockApi", "network",
   "defiApi", "exchangeApi", "event", "cronosidApi"}

FunctionNames ==
  {"createWallet", "getBalance", "getContractCode", "getNativeTokenBalance",
   "getERC20TokenBalance", "transferToken", "wrapToken", "swapToken",
   "getERC721TokenBalance", "getTokenOwner", "getTokenUri", "getERC721Metadata",
   "getERC20Metadata", "getTransactionsByAddress", "getTransactionByHash",
   "getTransactionStatus", "getTransactionCount", "getGasPrice", "getFeeData",
   "estimateGas", "getCurrentBlock", "getBlockByTag", "getNetworkInfo", "getChainId",
   "getClientVersion", "getWhitelistedTokens", "getAllFarms", "getFarmBySymbol",
   "getAllTickers", "getTickerByInstrument", "getLogs", "resolveName", "lookupAddress"}

\* the texts of the form '[moduleName/operationName] - '
TagForms == {"[" \o m \o "/" \o f \o "] - " : m \in ModuleNames, f \in FunctionNames}

\* the call of c ended on a transport failure or a body that is not JSON
TransportError(c) ==
  /\ calls[c].pc = "done"
  /\ \/ calls[c].resp.kind = "failure"
     \/ calls[c].resp.kind = "response" /\ ~calls[c].resp.body.json

\* the message of the underlying cause
Cause(c) == IF calls[c].resp.kind = "failure" THEN FetchFailed ELSE JsonSyntaxError

\* C20: on a transport failure or a body that cannot be parsed as JSON the
\* operation raises an error whose message contains the cause's message and
\* is prefixed with a tag '[moduleName/operationName] - '.
C20_Claim ==
  \A c \in Callers :
    TransportError(c) =>
      /\ calls[c].out.kind = "raised"
      /\ Contains(calls[c].out.msg, Cause(c))
      /\ calls[c].out.msg[1] \in TagForms

\* C20, amended: the raised error's message is the operation's 'Failed to
\* ...: ' text followed by the cause's message and carries no bracketed tag;
\* a text of the form '[moduleName/operationName] - ' followed by the cause's
\* message is written to the error log.
C20_Amended ==
  \A c \in Callers :
    TransportError(c) =>
      /\ calls[c].out.kind = "raised"
      /\ calls[c].out.msg[Len(calls[c].out.msg)] = Cause(c)
      /\ Len(calls[c].out.msg) >= 2
      /\ \A i \in DOMAIN calls[c].out.msg : calls[c].out.msg[i] \notin TagForms
      /\ Len(calls[c].out.log) = 2
      /\ calls[c].out.log[1] \in TagForms
      /\ calls[c].out.log[2] = Cause(c)

C20_Witness ==
  \E c \in Callers :
    /\ calls[c].op = "Wallet.create"
    /\ calls[c].resp.kind = "response"
    /\ calls[c].resp.status = 200
    /\ ~calls[c].resp.body.json
    /\ calls[c].out.msg = <<"Failed to create wallet: ", JsonSyntaxError>>
    /\ calls[c].out.log = <<"[walletApi/createWallet] - ", JsonSyntaxError>>

\* the facade operations that read Client.getApiKey()
KeyReaders == {op \in FacadeOps : KEY \in Range(FacadeOf(op).actuals)}

C22_Theorem ==
  [][\A c \in Callers :
       /\ calls'[c] # calls[c] => \A d \in Callers \ {c} : calls'[d] = calls[d]
       /\ (Entered(c) /\ calls'[c].pc = "pending") =>
            calls'[c].fnArgs =
              IF calls'[c].op = "Token.transfer"
              THEN <<apiKey, calls'[c].args[1], provider>> ELSE <<apiKey>>
       /\ calls[c].pc = "pending" =>
            /\ ENABLED Respond(c)
            /\ calls'[c].op = calls[c].op
            /\ calls'[c].fnArgs = calls[c].fnArgs
            /\ calls'[c].req = calls[c].req
            /\ calls'[c].pc = "done" =>
                 calls'[c].out =
                   Settle(FacadeOf(calls[c].op).fn, calls[c].fnArgs, calls'[c].resp)]_vars

C22_Witness ==
  /\ calls["c1"].op = "Transaction.getGasPrice"
  /\ calls["c1"].pc = "pending"
  /\ calls["c1"].req.headers.xApiKey = "key1"
  /\ calls["c2"].op = "Transaction.getFeeData"
  /\ calls["c2"].pc = "done"
  /\ calls["c2"].req.sent
  /\ calls["c2"].req.headers.xApiKey = "key2"
  /\ calls["c2"].out.msg = <<"Failed to fetch fee data: ", "HTTP error! status: 500">>

\* C23: every invoked facade operation completes in the end, by a value or an
\* error, provided the transport delivers a response or a failure for its
\* request; once completed it issues no further request and does nothing
\* more until the caller invokes an operation again.
C23_Theorem ==
  /\ \A c \in ConcurrentCallers :
       (calls[c].pc = "pending") ~>
         (calls[c].pc = "done" /\ calls[c].out.kind \in {"returned", "raised"})
  /\ [][\A c \in ConcurrentCallers :
           calls[c].pc = "done" =>
             \/ calls'[c] = calls[c]
             \/ calls'[c].pc = "pending" /\ calls'[c].fetches = 1
             \/ calls'[c].pc = "done" /\ calls'[c].fetches = 0]_vars

C23_Witness ==
  /\ calls["c1"].op = "Token.transfer"
  /\ calls["c1"].pc = "done"
  /\ calls["c1"].resp.kind = "failure"
  /\ calls["c1"].out.kind = "raised"
  /\ calls["c2"].pc = "pending"

\* C24: CronosId.forwardResolve checks the chain before the name: with an
\* unsupported chain and an invalid name the error raised is the
\* chain-unsupported one, never the invalid-format one.
C24_Theorem ==
  [][\A c \in Callers : \A name \in ResolveNames :
       (/\ Entered(c)
        /\ calls'[c].op = "CronosId.forwardResolve"
        /\ calls'[c].args = <<Text(name)>>
        /\ chainId \notin AllowList
        /\ ~isCronosId(name)) =>
         /\ calls'[c].out.kind = "raised"
         /\ calls'[c].out.msg = <<NotSupported>>
         /\ ~Contains(calls'[c].out.msg, InvalidFormat)]_vars

C24_Witness ==
  \E c \in Callers :
    /\ calls[c].op = "CronosId.forwardResolve"
    /\ calls[c].args = <<"a">>
    /\ calls[c].out = Raised(<<NotSupported>>, <<>>)
    /\ inited
    /\ chainId = "Cronos ZK EVM Mainnet"

\* C25: the URL of every request is built from the caller's arguments and
\* fixed text only, so it is the same whatever API key is configured and the
\* key never appears in it; Exchange.getTickerByInstrument(n) requests
\* .../exchange/tickers/n and Defi.getFarmBySymbol(p, s) .../defi/farms/p/s.
C25_Claim ==
  [][\A c \in Callers :
       (Entered(c) /\ calls'[c].op \in FacadeOps /\ calls'[c].req.sent) =>
         LET args == calls'[c].args
         IN  /\ ~Contains(calls'[c].req.url, apiKey)
             /\ \A i \in DOMAIN calls'[c].req.url :
                  \/ calls'[c].req.url[i] \in Range(args)
                  \/ calls'[c].req.url[i] \in Range(FacadeOf(calls'[c].op).fn.path)
                  \/ calls'[c].req.url[i] \in Range(FacadeOf(calls'[c].op).defaults)
             /\ calls'[c].op = "Exchange.getTickerByInstrument" =>
                  calls'[c].req.url = <<Base, "/exchange/tickers/", args[1]>>
             /\ calls'[c].op = "Defi.getFarmBySymbol" =>
                  calls'[c].req.url = <<Base, "/defi/farms/", args[1], "/", args[2]>>]_vars

\* C26: a facade call reads the API key and the provider once, when it is
\* invoked: a Client.init made while its request is in flight leaves the
\* request as it was built, and only calls invoked afterwards use the new key.
C26_Theorem ==
  [][\A c \in Callers :
       /\ (Entered(c) /\ calls'[c].pc = "pending") =>
            /\ calls'[c].req.headers.xApiKey = apiKey
            /\ calls'[c].op = "Token.transfer" =>
                 calls'[c].req.body = WithProvider(ObjectFields(calls'[c].args[1]))
       /\ (calls[c].pc = "pending" /\ clientVars' # clientVars) =>
            /\ calls'[c].pc = "pending"
            /\ calls'[c].req = calls[c].req
            /\ calls'[c].fnArgs = calls[c].fnArgs]_vars

C26_Witness ==
  /\ calls["c1"].op = "Token.transfer"
  /\ calls["c1"].pc = "pending"
  /\ calls["c1"].req.headers.xApiKey = "key1"
  /\ calls["c1"].req.body =
       [to |-> "0xRecipient", amount |-> 5, provider |-> "https://provider-url.com"]
  /\ apiKey = "key2"
  /\ provider = Undefined
  /\ calls["c2"].op = "Token.transfer"
  /\ calls["c2"].pc = "pending"
  /\ calls["c2"].req.headers.xApiKey = "key2"
  /\ calls["c2"].req.body = [to |-> "0xRecipient", amount |-> 5]

\* C27: a response with a non-2xx status and a body that is not valid JSON
\* makes the operation raise an error that wraps the JSON parse failure; the
\* message then holds neither a remote error text nor the HTTP status code.
C27_Theorem ==
  \A c \in Callers :
    (/\ calls[c].pc = "done"
     /\ calls[c].resp.kind = "response"
     /\ ~ok(calls[c].resp)
     /\ ~calls[c].resp.body.json) =>
      /\ calls[c].out.kind = "raised"
      /\ calls[c].out.msg[Len(calls[c].out.msg)] = JsonSyntaxError
      /\ \A st \in Statuses :
           ~Contains(calls[c].out.msg, "HTTP error! status: " \o ToString(st))
      /\ \A v \in JsonValues :
           (v.type = "object" /\ "error" \in DOMAIN v.fields) =>
             ~Contains(calls[c].out.msg, v.fields.error)

C27_Witness ==
  \E c \in Callers :
    /\ calls[c].op = "Transaction.estimateGas"
    /\ calls[c].resp.kind = "response"
    /\ calls[c].resp.status = 500
    /\ ~calls[c].resp.body.json
    /\ calls[c].out.msg = <<"Failed to estimate gas: ", JsonSyntaxError>>

\* C28: failure is decided by the HTTP status alone: a 2xx response whose
\* JSON body has an error field, or a status marker of failure, is returned
\* to the caller as a normal value and no error is raised.
C28_Theorem ==
  \A c \in Callers :
    (/\ GotObject(c)
     /\ ok(calls[c].resp)
     /\ \/ "error" \in DOMAIN calls[c].resp.body.value.fields
        \/ "status" \in DOMAIN calls[c].resp.body.value.fields) =>
      /\ calls[c].out.kind = "returned"
      /\ calls[c].out.value = calls[c].resp.body.value
      /\ calls[c].out.msg = <<>>

C28_Witness ==
  \E c \in Callers :
    /\ calls[c].op = "Wallet.create"
    /\ GotObject(c)
    /\ calls[c].resp.status = 200
    /\ calls[c].out = Returned(JsonObject([error |-> "not found"]))

\* C29: no facade operation and no getter changes the Configuration Store:
\* after any call, whether it returned, raised a validation or configuration
\* error or failed in transport, the stored apiKey and provider are what they
\* were before it; only Client.init writes them.
C29_Theorem ==
  [][/\ (\E c \in Callers : calls'[c] # calls[c]) =>
          (apiKey' = apiKey /\ provider' = provider)
     /\ (apiKey' # apiKey \/ provider' # provider) =>
          /\ inited'
          /\ apiKey' = lastInit'.apiKey
          /\ provider' = lastInit'.provider
          /\ calls' = calls]_vars

C29_Witness ==
  \E c \in Callers :
    /\ calls[c].op = "Token.wrap"
    /\ calls[c].pc = "done"
    /\ calls[c].resp.kind = "failure"
    /\ calls[c].out.kind = "raised"
    /\ apiKey = "key1"
    /\ provider = "https://provider-url.com"
    /\ calls[c].req.headers.xApiKey = "key1"
    /\ calls[c].req.body.provider = "https://provider-url.com"

====
